---- MODULE Spec2Model ----
(***************************************************************************)
(* Barnes-Hut n-body core of src/src/main.cpp: the octree (OctreeNode,     *)
(* Octree::build), the force walk (calculateForce and its three drivers),  *)
(* the integrator (CelestialBody::update) and the frame loop of main.      *)
(*                                                                         *)
(* Numbers.  The program computes in double precision; the model computes  *)
(* the same expressions over the reals, exactly, with integers:            *)
(*   - a position is an integer vector;                                    *)
(*   - the root cube is kept as twice its centre (center2 = min + max) and *)
(*     the squared bounding-box diagonal diagSq, so that the root size is  *)
(*     sqrt(diagSq)/2;                                                     *)
(*   - a node's size is kept as the divisor of the root size, a power of   *)
(*     two (size = rootSize / node.size), and its center as the integer    *)
(*     vector k with                                                       *)
(*        center = rootCenter + k * rootSize / (2 * node.size);            *)
(*   - a centre of mass is a fraction [num, den], den > 0;                 *)
(*   - a force accumulator is the sequence of point-mass terms added to    *)
(*     it, in order: the value of body->force is a function of that        *)
(*     sequence and of the body's own position and mass.                   *)
(* Comparisons against sqrt(diagSq) are decided by comparing squares.      *)
(***************************************************************************)
EXTENDS Integers, Sequences, FiniteSets

VARIABLES
    bodies,      \* celestialBodies: sequence of [position, velocity, force, mass]
    octree,      \* Octree: [root, center2, diagSq]; root = NoNode before the first build
    pc,          \* position of the main thread in the frame loop
    nextInsert,  \* loop index of the insertion loop of Octree::build
    theta2,      \* twice the opening angle theta (theta = theta2 / 2)
    strategy,    \* the driver of the force evaluation in progress, or "none"
    workers,     \* per worker thread (or the one sequential loop): [next, end)
    pending,     \* parallel for: the loop iterations not yet executed
    frame,       \* number of frames started
    halfDt,      \* deltaTime / 2 of the frame being integrated
    nextUpdate   \* loop index of the integration loop of main

treeVars  == <<octree, nextInsert>>
forceVars == <<strategy, workers, pending>>
loopVars  == <<frame, halfDt, nextUpdate>>
vars == <<bodies, octree, pc, nextInsert, theta2, strategy, workers, pending,
          frame, halfDt, nextUpdate>>

---------------------------------------------------------------------------
(* Bounds of the model *)

MaxBodies == 3
MaxCoord  == 3
MaxLine   == 4
MaxMass   == 2
MaxDepth  == 4
MaxThreads == 3
MaxStart  == 2
MaxFrames == 3
NewBodyMass == 1
HalfSteps == {0, 1}
SpawnPositions == {<<0, 0, 0>>, <<2, 0, 0>>}
Velocities == {<<0, 0, 0>>, <<1, 0, 0>>}

---------------------------------------------------------------------------
(* Integer and vector helpers *)

RECURSIVE Pow2(_)
Pow2(n) == IF n = 0 THEN 1 ELSE 2 * Pow2(n - 1)

Min2(a, b) == IF a < b THEN a ELSE b
Max2(a, b) == IF a > b THEN a ELSE b

VAdd(u, v)   == <<u[1] + v[1], u[2] + v[2], u[3] + v[3]>>
VSub(u, v)   == <<u[1] - v[1], u[2] - v[2], u[3] - v[3]>>
VScale(u, c) == <<u[1] * c, u[2] * c, u[3] * c>>
VMin(u, v)   == <<Min2(u[1], v[1]), Min2(u[2], v[2]), Min2(u[3], v[3])>>
VMax(u, v)   == <<Max2(u[1], v[1]), Max2(u[2], v[2]), Max2(u[3], v[3])>>
LengthSq(u)  == u[1] * u[1] + u[2] * u[2] + u[3] * u[3]

ZeroVec == <<0, 0, 0>>

(* The size divisor of the nodes at depth MaxDepth. *)
MaxDiv == Pow2(MaxDepth)

(* const float theta = 0.5f, doubled. *)
Theta2 == 1

(* The vector num/den, den > 0. *)
Frac(num, den) == [num |-> num, den |-> den]

FracOfVec(p) == [num |-> p, den |-> 1]

---------------------------------------------------------------------------
(* CelestialBody *)

CelestialBody(pos, vel, m) ==
    [position |-> pos, velocity |-> vel, force |-> <<>>, mass |-> m]

---------------------------------------------------------------------------
(* OctreeNode *)

NoNode == [leaf |-> "none"]

OctreeNode(center, size) ==
    [center       |-> center,
     size         |-> size,
     centerOfMass |-> FracOfVec(ZeroVec),
     totalMass    |-> 0,
     bodies       |-> <<>>,
     children     |-> <<>>]

(* children[0] == nullptr *)
isLeaf(node) == node.children = <<>>

(* p >= c on one axis, for p2 = 2*p - center2 and c = rootCenter +          *)
(* k * rootSize / (2 * div), rootSize = sqrt(diagSq)/2: the comparison      *)
(* p2 * 2 * div >= k * sqrt(diagSq), decided on the squares.                *)
GeCenter(p2, k, div, diagSq) ==
    LET a == p2 * 2 * div
    IN  IF k <= 0
        THEN a >= 0 \/ a * a <= k * k * diagSq
        ELSE a >= 0 /\ a * a >= k * k * diagSq

getOctant(node, position, tree) ==
    LET p2 == VSub(VScale(position, 2), tree.center2)
        ge(ax) == GeCenter(p2[ax], node.center[ax], node.size, tree.diagSq)
    IN  (IF ge(1) THEN 4 ELSE 0) + (IF ge(2) THEN 2 ELSE 0) + (IF ge(3) THEN 1 ELSE 0)

(* Child i of a node: half the size, centre offset by a quarter of the      *)
(* parent's size along each axis, towards the octant's side.                *)
childCenter(center, i) ==
    <<2 * center[1] + (IF (i \div 4) % 2 = 1 THEN 1 ELSE -1),
      2 * center[2] + (IF (i \div 2) % 2 = 1 THEN 1 ELSE -1),
      2 * center[3] + (IF i % 2 = 1 THEN 1 ELSE -1)>>

(* clearBodies without the clear. *)
clearBodiesKeeping(node) == node

(* bodies.clear() of a leaf that is about to be subdivided. *)
clearBodies(node) == [node EXCEPT !.bodies = <<>>]

subdivide(node) ==
    [node EXCEPT !.children =
        <<OctreeNode(childCenter(node.center, 0), node.size * 2),
          OctreeNode(childCenter(node.center, 1), node.size * 2),
          OctreeNode(childCenter(node.center, 2), node.size * 2),
          OctreeNode(childCenter(node.center, 3), node.size * 2),
          OctreeNode(childCenter(node.center, 4), node.size * 2),
          OctreeNode(childCenter(node.center, 5), node.size * 2),
          OctreeNode(childCenter(node.center, 6), node.size * 2),
          OctreeNode(childCenter(node.center, 7), node.size * 2)>>]

(* Empty leaf: the body is stored and the aggregate is set from it. *)
storeBody(node, i, bs) ==
    [node EXCEPT !.bodies       = Append(node.bodies, i),
                 !.centerOfMass = FracOfVec(bs[i].position),
                 !.totalMass    = bs[i].mass]

(* addToAggregate with the total mass overwritten instead of accumulated. *)
addToAggregateOverwritingMass(node, body) ==
    LET com   == node.centerOfMass
        wNum  == VAdd(VScale(com.num, node.totalMass),
                      VScale(body.position, body.mass * com.den))
        total == node.totalMass + body.mass
    IN  [node EXCEPT !.totalMass    = body.mass,
                     !.centerOfMass = Frac(wNum, com.den * total)]

(* addToAggregate with the old centre weighted by the updated total mass. *)
addToAggregateAfterMassUpdate(node, body) ==
    LET com   == node.centerOfMass
        total == node.totalMass + body.mass
        wNum  == VAdd(VScale(com.num, total),
                      VScale(body.position, body.mass * com.den))
    IN  [node EXCEPT !.totalMass    = total,
                     !.centerOfMass = Frac(wNum, com.den * total)]

(* "Update center of mass and total mass" with the incoming body. *)
addToAggregate(node, body) ==
    LET com   == node.centerOfMass
        wNum  == VAdd(VScale(com.num, node.totalMass),
                      VScale(body.position, body.mass * com.den))
        total == node.totalMass + body.mass
    IN  [node EXCEPT !.totalMass    = total,
                     !.centerOfMass = Frac(wNum, com.den * total)]

(* insert and insertToChild, mutually recursive as in the source.  Each     *)
(* returns the node after the call and whether the call ran out of stack:   *)
(* the recursion has no depth limit of its own, so a call chain deeper than *)
(* MaxDepth is cut off as stack exhaustion, and the callers above it never  *)
(* get to their aggregate update.                                           *)
RECURSIVE insert(_, _, _, _)
RECURSIVE insertToChild(_, _, _, _)

insertToChild(node, i, bs, tree) ==
    LET octant == getOctant(node, bs[i].position, tree)
        r      == insert(node.children[octant + 1], i, bs, tree)
    IN  [node |-> [node EXCEPT !.children[octant + 1] = r.node], overflow |-> r.overflow]

insert(node, i, bs, tree) ==
    IF node.size > MaxDiv
    THEN [node |-> node, overflow |-> TRUE]
    ELSE IF isLeaf(node) /\ node.bodies = <<>>
    THEN [node |-> storeBody(node, i, bs), overflow |-> FALSE]
    ELSE LET moved == IF isLeaf(node) /\ Len(node.bodies) = 1
                      THEN insertToChild(subdivide(clearBodies(node)),
                                         node.bodies[1], bs, tree)
                      ELSE [node |-> node, overflow |-> FALSE]
             added == IF moved.overflow THEN moved
                      ELSE insertToChild(moved.node, i, bs, tree)
         IN  IF added.overflow THEN added
             ELSE [node |-> addToAggregate(added.node, bs[i]), overflow |-> FALSE]

---------------------------------------------------------------------------
(* Octree *)

NoTree == [root |-> NoNode, center2 |-> ZeroVec, diagSq |-> 0]

RECURSIVE boxMin(_, _)
boxMin(bs, n) == IF n = 1 THEN bs[1].position ELSE VMin(boxMin(bs, n - 1), bs[n].position)

RECURSIVE boxMax(_, _)
boxMax(bs, n) == IF n = 1 THEN bs[1].position ELSE VMax(boxMax(bs, n - 1), bs[n].position)

(* Octree::build up to the creation of the root: the bounding box, the      *)
(* centre (min + max) * 0.5 and the size length(max - min) * 0.5.           *)
newRoot(bs) ==
    LET min == boxMin(bs, Len(bs))
        max == boxMax(bs, Len(bs))
    IN  [root    |-> OctreeNode(ZeroVec, 1),
         center2 |-> VAdd(min, max),
         diagSq  |-> LengthSq(VSub(max, min))]

BuildRoot ==
    /\ pc = "build"
    /\ IF bodies = <<>>
       THEN /\ pc' = "built"
            /\ UNCHANGED octree
       ELSE /\ octree' = newRoot(bodies)
            /\ pc' = "insert"
    /\ nextInsert' = 1
    /\ UNCHANGED <<bodies, theta2, forceVars, loopVars>>

(* One iteration of the insertion loop of Octree::build. *)
InsertBody ==
    /\ pc = "insert"
    /\ LET r == insert(octree.root, nextInsert, bodies, octree)
       IN  /\ octree' = [octree EXCEPT !.root = r.node]
           /\ IF r.overflow
              THEN /\ pc' = "crashed"
                   /\ UNCHANGED nextInsert
              ELSE /\ nextInsert' = nextInsert + 1
                   /\ pc' = IF nextInsert = Len(bodies) THEN "built" ELSE "insert"
    /\ UNCHANGED <<bodies, theta2, forceVars, loopVars>>

---------------------------------------------------------------------------
(* calculateForce *)

(* Squared length of centerOfMass - position, times centerOfMass.den^2. *)
distSqNum(body, node) ==
    LengthSq(VSub(node.centerOfMass.num, VScale(body.position, node.centerOfMass.den)))

(* tooClose with the distance floor left out. *)
tooCloseNever(body, node) == FALSE

(* d < 2, for d = length(centerOfMass - position). *)
tooClose(body, node) ==
    distSqNum(body, node) < 4 * node.centerOfMass.den * node.centerOfMass.den

(* node->size / d < theta, for size = sqrt(diagSq) / (2 * node.size) and    *)
(* theta = th2 / 2, decided on the squares (d >= 2 here).                   *)
farEnough(body, node, tree, th2) ==
    tree.diagSq * node.centerOfMass.den * node.centerOfMass.den
        < th2 * th2 * distSqNum(body, node) * node.size * node.size

(* The term direction * G * body->mass * node->totalMass / d^2 that one     *)
(* node adds to body->force, kept as the point mass it is computed from.    *)
pointMass(node) == [centerOfMass |-> node.centerOfMass, totalMass |-> node.totalMass]

(* The terms that calculateForce(body, node) adds to body->force, in order. *)
RECURSIVE calculateForce(_, _, _, _)
RECURSIVE calculateForceChildren(_, _, _, _, _)
calculateForceChildren(body, node, tree, th2, i) ==
    IF i > 8 THEN <<>>
    ELSE calculateForce(body, node.children[i], tree, th2)
             \o calculateForceChildren(body, node, tree, th2, i + 1)

calculateForce(body, node, tree, th2) ==
    IF isLeaf(node) /\ node.bodies = <<>> THEN <<>>
    ELSE IF tooClose(body, node) THEN <<>>
    ELSE IF isLeaf(node) \/ farEnough(body, node, tree, th2) THEN <<pointMass(node)>>
    ELSE calculateForceChildren(body, node, tree, th2, 1)

(* calculateForce(&bodies[i], root) on the store: body i's accumulator      *)
(* grows by the terms of the walk.  The index is zero-based, as in the      *)
(* source.                                                                  *)
evaluated(bs, i, tree, th2) ==
    [bs EXCEPT ![i + 1].force = @ \o calculateForce(bs[i + 1], tree.root, tree, th2)]

---------------------------------------------------------------------------
(* calculateForcesNormal, calculateForcesThreads, calculateForcesOmp *)

(* Values of std::thread::hardware_concurrency() that are at least 1. *)
ThreadCounts == 1..MaxThreads

(* The range of worker w ignoring the remainder of the division. *)
chunkWithoutRemainder(n, numThreads, w) ==
    LET chunkSize == n \div numThreads
    IN  [next |-> (w - 1) * chunkSize, end |-> w * chunkSize]

(* The range of worker w running on to the end of the store. *)
chunkUpToEnd(n, numThreads, w) ==
    LET chunkSize == n \div numThreads
    IN  [next |-> (w - 1) * chunkSize, end |-> n]

(* The index range [next, end) handed to worker w of numThreads (w counted  *)
(* from 1): chunks of size n / numThreads, the last worker up to n.         *)
chunk(n, numThreads, w) ==
    LET chunkSize == n \div numThreads
    IN  [next |-> (w - 1) * chunkSize,
         end  |-> IF w = numThreads THEN n ELSE w * chunkSize]

StartNormal ==
    /\ pc = "built"
    /\ strategy' = "normal"
    /\ workers' = <<[next |-> 0, end |-> Len(bodies)]>>
    /\ pc' = "forces"
    /\ UNCHANGED <<bodies, theta2, treeVars, pending, loopVars>>

StartThreads ==
    /\ pc = "built"
    /\ \E numThreads \in ThreadCounts :
          workers' = [w \in 1..numThreads |-> chunk(Len(bodies), numThreads, w)]
    /\ strategy' = "threads"
    /\ pc' = "forces"
    /\ UNCHANGED <<bodies, theta2, treeVars, pending, loopVars>>

StartOmp ==
    /\ pc = "built"
    /\ strategy' = "omp"
    /\ pending' = 0..(Len(bodies) - 1)
    /\ pc' = "forces"
    /\ UNCHANGED <<bodies, theta2, treeVars, workers, loopVars>>

(* One iteration of the loop of the sequential driver or of a worker. *)
WorkerStep ==
    /\ pc = "forces"
    /\ strategy \in {"normal", "threads"}
    /\ \E w \in 1..Len(workers) :
          /\ workers[w].next < workers[w].end
          /\ bodies' = evaluated(bodies, workers[w].next, octree, theta2)
          /\ workers' = [workers EXCEPT ![w].next = @ + 1]
    /\ UNCHANGED <<pc, theta2, treeVars, strategy, pending, loopVars>>

(* One iteration of the parallel for, on whichever thread of the team. *)
OmpIteration ==
    /\ pc = "forces"
    /\ strategy = "omp"
    /\ \E i \in pending :
          /\ bodies' = evaluated(bodies, i, octree, theta2)
          /\ pending' = pending \ {i}
    /\ UNCHANGED <<pc, theta2, treeVars, strategy, workers, loopVars>>

(* The driver returns before its loops have ended. *)
allJoinedEarly == TRUE

(* The sequential loop has ended, every worker has been joined, the         *)
(* parallel region has passed its closing barrier.                          *)
allJoined ==
    /\ \A w \in 1..Len(workers) : workers[w].next >= workers[w].end
    /\ pending = {}

(* Return of the driver to main. *)
Join ==
    /\ pc = "forces"
    /\ allJoined
    /\ pc' = "update"
    /\ strategy' = "none"
    /\ workers' = <<>>
    /\ UNCHANGED <<bodies, theta2, treeVars, pending, loopVars>>

---------------------------------------------------------------------------
(* CelestialBody::update, createNewBody and the main loop *)

Sign(x) == IF x > 0 THEN 1 ELSE IF x < 0 THEN -1 ELSE 0

(* The signs, along one axis, of the directions of the terms in a body's    *)
(* force accumulator.                                                       *)
directionSigns(body, ax) ==
    {Sign(body.force[t].centerOfMass.num[ax]
             - body.position[ax] * body.force[t].centerOfMass.den) :
        t \in 1..Len(body.force)}

(* The values one component of force / mass * dt can take on the velocity   *)
(* grid: the magnitudes of the terms are positive reals the model does not  *)
(* compute, so the sum is zero when every direction is, one grid step the   *)
(* way all the terms pull, and any of the three when they pull both ways.   *)
kickAlong(signs) ==
    IF signs \subseteq {0} THEN {0}
    ELSE IF signs \subseteq {0, 1} THEN {1}
    ELSE IF signs \subseteq {0, -1} THEN {-1}
    ELSE {-1, 0, 1}

(* acceleration * dt, for dt = 2 * hdt. *)
kicks(body, hdt) ==
    IF hdt = 0 \/ body.force = <<>> THEN {ZeroVec}
    ELSE {<<x, y, z>> : x \in kickAlong(directionSigns(body, 1)),
                        y \in kickAlong(directionSigns(body, 2)),
                        z \in kickAlong(directionSigns(body, 3))}

(* update without the reset of the force. *)
updateKeepingForce(body, hdt, kick) ==
    LET velocity == VAdd(body.velocity, kick)
        position == VAdd(body.position, VScale(body.velocity, hdt))
    IN  [body EXCEPT !.position = VAdd(position, VScale(velocity, hdt)),
                     !.velocity = velocity]

(* update(dt) for dt = 2 * hdt and acceleration * dt = kick. *)
update(body, hdt, kick) ==
    LET velocity == VAdd(body.velocity, kick)
        position == VAdd(body.position, VScale(body.velocity, hdt))
    IN  [body EXCEPT !.position = VAdd(position, VScale(velocity, hdt)),
                     !.velocity = velocity,
                     !.force = <<>>]

(* Top of the loop: the window stays open and deltaTime is measured. *)
FrameStart ==
    /\ pc = "loop"
    /\ frame < MaxFrames
    /\ halfDt' \in HalfSteps
    /\ pc' = "build"
    /\ UNCHANGED <<bodies, theta2, treeVars, forceVars, frame, nextUpdate>>

(* One iteration of the loop over the store that calls body.update. *)
UpdateBody ==
    /\ pc = "update"
    /\ nextUpdate <= Len(bodies)
    /\ \E kick \in kicks(bodies[nextUpdate], halfDt) :
          bodies' = [bodies EXCEPT ![nextUpdate] = update(@, halfDt, kick)]
    /\ nextUpdate' = nextUpdate + 1
    /\ UNCHANGED <<pc, theta2, treeVars, forceVars, frame, halfDt>>

EndUpdate ==
    /\ pc = "update"
    /\ nextUpdate > Len(bodies)
    /\ nextUpdate' = 1
    /\ pc' = "ui"
    /\ UNCHANGED <<bodies, theta2, treeVars, forceVars, frame, halfDt>>

(* The "Create Body" button: createNewBody with the values of the menu. *)
Spawn ==
    /\ pc = "ui"
    /\ Len(bodies) < MaxBodies
    /\ \E new_body_position \in SpawnPositions :
          bodies' = Append(bodies, CelestialBody(new_body_position, ZeroVec, NewBodyMass))
    /\ pc' = "draw"
    /\ UNCHANGED <<theta2, treeVars, forceVars, loopVars>>

(* The bodies are drawn and the frame ends. *)
Draw ==
    /\ pc \in {"ui", "draw"}
    /\ frame' = frame + 1
    /\ pc' = "loop"
    /\ UNCHANGED <<bodies, theta2, treeVars, forceVars, halfDt, nextUpdate>>

---------------------------------------------------------------------------
(* Octree::build applied to every body sequence of the bounds *)

(* Sample points of the integer grid: the x axis up to 2, among them the    *)
(* collinear pair (0,0,0), (2,0,0), and beyond it points off the axis, so   *)
(* that the samples hold close pairs as well as sets that differ on more    *)
(* than one axis.                                                           *)
Point(t) ==
    <<t, IF t >= 3 THEN 1 ELSE 0, IF t >= 3 /\ t % 2 = 0 THEN 1 ELSE 0>>

Positions == {Point(t) : t \in 0..MaxCoord}

(* Points of the x axis. *)
LinePositions == {<<t, 0, 0>> : t \in 0..MaxLine}

Bodies(P) == {CelestialBody(p, ZeroVec, m) : p \in P, m \in 1..MaxMass}

(* The state before the first frame, for a body store bs and opening angle  *)
(* th2 / 2, with the main thread at position at.                            *)
Start(bs, th2, at) ==
    /\ bodies = bs
    /\ octree = NoTree
    /\ pc = at
    /\ nextInsert = 1
    /\ theta2 = th2
    /\ strategy = "none"
    /\ workers = <<>>
    /\ pending = {}
    /\ frame = 0
    /\ halfDt = 0
    /\ nextUpdate = 1

InitBuild ==
    \E n \in 0..MaxBodies : \E bs \in [1..n -> Bodies(Positions)] : Start(bs, Theta2, "build")

NextBuild == BuildRoot \/ InsertBody

SpecBuild == InitBuild /\ [][NextBuild]_vars

(* The same, over bodies on the x axis. *)
InitLine ==
    \E n \in 0..MaxBodies : \E bs \in [1..n -> Bodies(LinePositions)] : Start(bs, Theta2, "build")

SpecLine == InitLine /\ [][NextBuild]_vars

(* The three drivers on the trees of bodies stored in ascending x. *)
Ascending(bs) == \A i \in 1..(Len(bs) - 1) : bs[i].position[1] < bs[i + 1].position[1]

InitForcesWith(th2) ==
    \E n \in 0..MaxBodies : \E bs \in [1..n -> Bodies(Positions)] :
        Ascending(bs) /\ Start(bs, th2, "build")

InitForces == InitForcesWith(Theta2)

NextForces ==
    \/ BuildRoot
    \/ InsertBody
    \/ StartNormal
    \/ StartThreads
    \/ StartOmp
    \/ WorkerStep
    \/ OmpIteration
    \/ Join

SpecForces == InitForces /\ [][NextForces]_vars

(* The same with theta set to 0. *)
InitExact == InitForcesWith(0)

SpecExact == InitExact /\ [][NextForces]_vars

(* main: the frame loop, which drives the forces with calculateForcesOmp. *)
UnitMasses(bs) == \A i \in 1..Len(bs) : bs[i].mass = NewBodyMass

Init ==
    \E n \in 0..MaxStart : \E bs \in [1..n -> Bodies(Positions)] :
        \E vs \in [1..n -> Velocities] :
            /\ Ascending(bs)
            /\ UnitMasses(bs)
            /\ Start([i \in 1..n |-> [bs[i] EXCEPT !.velocity = vs[i]]], Theta2, "loop")

Next ==
    \/ FrameStart
    \/ BuildRoot
    \/ InsertBody
    \/ StartOmp
    \/ OmpIteration
    \/ Join
    \/ UpdateBody
    \/ EndUpdate
    \/ Spawn
    \/ Draw

Spec == Init /\ [][Next]_vars

(* Octree::build as one function of the store: the tree after the loop of  *)
(* insertions over bodies 1..n.                                             *)
RECURSIVE insertAll(_, _, _)
insertAll(tree, bs, n) ==
    IF n = 0 THEN tree
    ELSE LET t == insertAll(tree, bs, n - 1)
         IN  [t EXCEPT !.root = insert(t.root, n, bs, t).node]

build(bs) == insertAll(newRoot(bs), bs, Len(bs))

---------------------------------------------------------------------------
(* What a tree holds *)

(* The tree of the current frame is in place: being filled, or complete. *)
Inserting == pc = "insert"
Built     == pc = "built"

(* Number of bodies whose insert call has completed. *)
Inserted == IF Inserting THEN nextInsert - 1 ELSE Len(bodies)

RECURSIVE SumMass(_, _)
SumMass(bs, n) == IF n = 0 THEN 0 ELSE SumMass(bs, n - 1) + bs[n].mass

(* Of the bodies stored in the leaves of a subtree: their number, the sum   *)
(* of their masses and the sum of mass * position.                          *)
RECURSIVE Stored(_, _)
RECURSIVE StoredIn(_, _, _)
StoredIn(node, bs, c) ==
    IF c = 0 THEN [count |-> 0, mass |-> 0, moment |-> ZeroVec]
    ELSE LET a == StoredIn(node, bs, c - 1)
             b == Stored(node.children[c], bs)
         IN  [count  |-> a.count + b.count,
              mass   |-> a.mass + b.mass,
              moment |-> VAdd(a.moment, b.moment)]

Stored(node, bs) ==
    IF isLeaf(node)
    THEN IF node.bodies = <<>>
         THEN [count |-> 0, mass |-> 0, moment |-> ZeroVec]
         ELSE [count  |-> Len(node.bodies),
               mass   |-> SumMass([j \in 1..Len(node.bodies) |-> bs[node.bodies[j]]],
                                  Len(node.bodies)),
               moment |-> VScale(bs[node.bodies[1]].position, bs[node.bodies[1]].mass)]
    ELSE StoredIn(node, bs, 8)

RECURSIVE MassConsistent(_, _)
MassConsistent(node, bs) ==
    /\ node.totalMass = Stored(node, bs).mass
    /\ isLeaf(node) \/ \A c \in 1..8 : MassConsistent(node.children[c], bs)

RECURSIVE CenterConsistent(_, _)
CenterConsistent(node, bs) ==
    /\ LET st == Stored(node, bs)
       IN  st.count > 0 =>
              VScale(node.centerOfMass.num, st.mass) = VScale(st.moment, node.centerOfMass.den)
    /\ isLeaf(node) \/ \A c \in 1..8 : CenterConsistent(node.children[c], bs)

RECURSIVE WellShaped(_)
WellShaped(node) ==
    \/ isLeaf(node) /\ Len(node.bodies) <= 1
    \/ /\ Len(node.children) = 8
       /\ node.bodies = <<>>
       /\ \A c \in 1..8 : WellShaped(node.children[c])

Coincident == \E i, j \in 1..Len(bodies) : i # j /\ bodies[i].position = bodies[j].position

(* The leaf reached from node by following getOctant for position p. *)
RECURSIVE LeafFor(_, _, _)
LeafFor(node, p, tree) ==
    IF isLeaf(node) THEN node ELSE LeafFor(node.children[getOctant(node, p, tree) + 1], p, tree)

---------------------------------------------------------------------------
(* Claims on the tree *)

(* C1: while a tree is being filled and once it is built, every node's      *)
(* totalMass is the sum of the masses of the bodies stored in the leaves of *)
(* its subtree, and the root's totalMass is the sum of the masses of the    *)
(* bodies inserted so far.                                                  *)
C1_TotalMass ==
    (Inserting \/ Built) /\ bodies # <<>> =>
        /\ MassConsistent(octree.root, bodies)
        /\ octree.root.totalMass = SumMass(bodies, Inserted)

C1_Witness ==
    /\ Built
    /\ Len(bodies) = 3
    /\ \E c \in 1..8 : ~isLeaf(octree.root.children[c])
    /\ octree.root.totalMass = 5

(* C2: once a tree is built (and after every completed insert), every       *)
(* non-empty node's centerOfMass is the mass-weighted average position of   *)
(* the bodies stored in its subtree.                                        *)
C2_CenterOfMass ==
    (Inserting \/ Built) /\ bodies # <<>> => CenterConsistent(octree.root, bodies)

(* Unit masses at (0,0,0) and (2,0,0): the root's centre of mass is (1,0,0). *)
C2_Witness ==
    /\ Built
    /\ bodies = <<CelestialBody(<<0, 0, 0>>, ZeroVec, 1), CelestialBody(<<2, 0, 0>>, ZeroVec, 1)>>
    /\ octree.root.centerOfMass.num = VScale(<<1, 0, 0>>, octree.root.centerOfMass.den)

(* C3: every node is a leaf with at most one body and no children, or an    *)
(* internal node with eight children and no body of its own.                *)
C3_LeafOrInternal ==
    octree.root # NoNode => WellShaped(octree.root)

C3_Witness ==
    /\ Built
    /\ Len(bodies) = 3
    /\ \E c \in 1..8 :
          /\ ~isLeaf(octree.root.children[c])
          /\ \E g \in 1..8 : Len(octree.root.children[c].children[g].bodies) = 1
    /\ \E c \in 1..8 : octree.root.children[c].bodies = <<>> /\ isLeaf(octree.root.children[c])

(* C4 as claimed: the root cube, of edge length size and centred at center, *)
(* holds every body: |p - center| <= size / 2 on every axis, that is        *)
(* 4 * (2p - center2)^2 <= diagSq.                                          *)
C4_RootBoundsBodies ==
    (Inserting \/ Built) /\ bodies # <<>> =>
        \A i \in 1..Len(bodies) : \A ax \in 1..3 :
            LET p2 == 2 * bodies[i].position[ax] - octree.center2[ax]
            IN  4 * p2 * p2 <= octree.diagSq

(* C8 as claimed: a build over bodies of which two share a position runs to *)
(* its end, with the root's totalMass the sum of all masses.                *)
C8_CoincidentBuildCompletes ==
    Coincident =>
        /\ pc # "crashed"
        /\ Built => octree.root.totalMass = SumMass(bodies, Len(bodies))

(* C9 as claimed: a build over bodies at pairwise distinct positions runs   *)
(* to its end, and then every body is alone in the leaf that getOctant      *)
(* leads to from the root.                                                  *)
C9_DistinctBuildCompletes ==
    ~Coincident =>
        /\ pc # "crashed"
        /\ Built => \A i \in 1..Len(bodies) :
                       LeafFor(octree.root, bodies[i].position, octree).bodies = <<i>>

---------------------------------------------------------------------------
(* Claims on the forces and on the frame *)

(* The force that the walk from the root gives body i. *)
forceOf(i) == calculateForce(bodies[i], octree.root, octree, theta2)

(* Every loop of the running driver has ended. *)
Evaluated == (pc = "forces" /\ allJoined) \/ pc = "update"

(* C5: whichever driver ran, with however many workers and in whatever      *)
(* order their iterations were taken, once the driver's loops have ended    *)
(* every body's accumulated force is the force of the sequential walk from  *)
(* the root, term for term.                                                 *)
C5_SameForces ==
    Evaluated => \A i \in 1..Len(bodies) : bodies[i].force = forceOf(i)

C5_Witness ==
    /\ pc = "forces"
    /\ allJoined
    /\ strategy = "threads"
    /\ Len(workers) = 2
    /\ Len(bodies) = 3
    /\ \E i \in 1..3 : Len(bodies[i].force) = 2

(* The point mass that body j is by itself. *)
bodyAsPointMass(j) ==
    [centerOfMass |-> FracOfVec(bodies[j].position), totalMass |-> bodies[j].mass]

(* The other bodies at a distance of at least the floor of 2 from body b. *)
beyondFloor(b) ==
    {j \in 1..Len(bodies) \ {b} :
        LengthSq(VSub(bodies[j].position, bodies[b].position)) >= 4}

(* C6 as claimed: with theta = 0 the accumulated force of every body b is   *)
(* made of exactly one term for each other body at a distance of at least   *)
(* the floor, computed from that body's position and mass, and of no other  *)
(* term.                                                                    *)
C6_ExactPairwise ==
    Evaluated /\ theta2 = 0 =>
        \A b \in 1..Len(bodies) :
            /\ Len(bodies[b].force) = Cardinality(beyondFloor(b))
            /\ \A j \in beyondFloor(b) :
                  \E t \in 1..Len(bodies[b].force) : bodies[b].force[t] = bodyAsPointMass(j)

(* C7: the walk adds nothing for the leaf that holds only the body being    *)
(* evaluated; and when the store holds a single body, the body comes to its *)
(* update with a zero force, and the update leaves the force zero and the   *)
(* velocity as it was, and moves the position by velocity * dt.             *)
C7_NoSelfForce ==
    [][/\ pc = "forces" =>
            \A i \in 1..Len(bodies) :
                LET leaf == LeafFor(octree.root, bodies[i].position, octree)
                IN  leaf.bodies = <<i>> =>
                        calculateForce(bodies[i], leaf, octree, theta2) = <<>>
       /\ pc = "update" /\ Len(bodies) = 1 /\ nextUpdate = 1 =>
            /\ bodies[1].force = <<>>
            /\ bodies'[1].force = <<>>
            /\ bodies'[1].velocity = bodies[1].velocity
            /\ bodies'[1].position =
                   VAdd(bodies[1].position, VScale(bodies[1].velocity, 2 * halfDt))]_vars

C7_Witness ==
    /\ pc = "ui"
    /\ Len(bodies) = 1
    /\ halfDt > 0
    /\ bodies[1].velocity # ZeroVec
    /\ bodies[1].force = <<>>
    /\ octree.root.bodies = <<1>>

(* A step that adds terms to some body's force. *)
Evaluates ==
    \E i \in 1..Len(bodies) :
        bodies'[i].force # bodies[i].force /\ bodies'[i].force # <<>>

(* A step that integrates a body. *)
Integrates ==
    \/ pc = "update" /\ nextUpdate' = nextUpdate + 1
    \/ \E i \in 1..Len(bodies) :
          \/ bodies'[i].position # bodies[i].position
          \/ bodies'[i].velocity # bodies[i].velocity
          \/ bodies'[i].force # bodies[i].force /\ bodies'[i].force = <<>>

(* C10: forces are added only in the force phase, and there the tree is the *)
(* finished build of the store as it stands; a step of the force phase      *)
(* leaves the tree, the number of bodies and every position and velocity    *)
(* alone; and a body is integrated only in the update phase, when every     *)
(* body not yet integrated holds the whole force of its walk.               *)
C10_FrameOrder ==
    [][/\ Evaluates => pc = "forces"
       /\ pc = "forces" =>
            /\ bodies = <<>> \/ octree = build(bodies)
            /\ octree' = octree
            /\ Len(bodies') = Len(bodies)
            /\ \A i \in 1..Len(bodies) :
                  /\ bodies'[i].position = bodies[i].position
                  /\ bodies'[i].velocity = bodies[i].velocity
       /\ Integrates =>
            /\ pc = "update"
            /\ \A j \in nextUpdate..Len(bodies) : bodies[j].force = forceOf(j)]_vars

C10_Witness ==
    /\ pc = "forces"
    /\ frame = 1
    /\ Len(bodies) = 3
    /\ pending # {}
    /\ \E i \in 1..3 : i \notin pending /\ bodies[i].force # <<>>

(* C11: from the top of a frame until the force driver starts, every body's *)
(* force accumulator is zero, whatever frames and spawns came before; in    *)
(* the force phase a body not yet evaluated still holds zero and an         *)
(* evaluated one holds the force of its walk; so the force a body brings to *)
(* its update is the force of this frame's walk and nothing else.           *)
C11_ForceZeroAtStart ==
    /\ pc \in {"loop", "build", "insert", "built"} =>
          \A i \in 1..Len(bodies) : bodies[i].force = <<>>
    /\ pc = "forces" /\ strategy = "omp" =>
          \A i \in 1..Len(bodies) :
              bodies[i].force = IF (i - 1) \in pending THEN <<>> ELSE forceOf(i)
    /\ pc = "update" =>
          \A i \in 1..Len(bodies) :
              bodies[i].force = IF i < nextUpdate THEN <<>> ELSE forceOf(i)

(* A later frame about to evaluate its forces, over a store that a spawn    *)
(* has extended and in which an update has used a force.                    *)
C11_Witness ==
    /\ pc = "built"
    /\ frame = 2
    /\ Len(bodies) = 3
    /\ \E i \in 1..2 : bodies[i].velocity \notin Velocities
    /\ \A i \in 1..3 : bodies[i].force = <<>>

(* The workers whose range, as handed out or as left to do, holds index i. *)
owners(ws, i) == {w \in 1..Len(ws) : ws[w].next <= i /\ i < ws[w].end}

(* C12: the ranges that calculateForcesThreads hands out lie within the     *)
(* store and every body index is in exactly one of them, for every worker   *)
(* count and every body count; and while the workers run, no index is left  *)
(* to do in the ranges of two workers, so no two workers write one body.    *)
C12_DisjointCover ==
    [][/\ pc = "built" /\ strategy' = "threads" =>
            /\ \A w \in 1..Len(workers') :
                  /\ 0 <= workers'[w].next
                  /\ workers'[w].next <= workers'[w].end
                  /\ workers'[w].end <= Len(bodies)
            /\ \A i \in 0..(Len(bodies) - 1) : Cardinality(owners(workers', i)) = 1
       /\ pc = "forces" /\ strategy = "threads" =>
            \A i \in 0..(Len(bodies) - 1) : Cardinality(owners(workers, i)) <= 1]_vars

(* Three workers over two bodies, all ranges done. *)
C12_Witness ==
    /\ pc = "forces"
    /\ strategy = "threads"
    /\ Len(workers) = 3
    /\ Len(bodies) = 2
    /\ workers[1].next = workers[1].end
    /\ workers[3].next = 2
    /\ \E i \in 1..2 : bodies[i].force # <<>>

====
